---------------------------- MODULE Spec2Model ----------------------------
(***************************************************************************)
(* A model of the BK-tree of src/src/lib.rs: the tree (Node, BkTree), its  *)
(* insertion walk, the bounded-radius breadth-first search, bulk insertion *)
(* and the two stack-driven iterators.                                     *)
(*                                                                         *)
(* The tree is kept as an arena: nodes[i] is the i-th node ever created,   *)
(* a record [word, children] whose children is the Vec<(usize, Node<T>)>   *)
(* of the source with each owned child replaced by its index.  Node 1 is   *)
(* the root; the tree is empty (root = None) when nodes is empty.          *)
(***************************************************************************)
EXTENDS Naturals, Sequences, FiniteSets

\* ------------------------------------------------------------------ bounds
\* The number of insert calls one behaviour makes.
MaxInserts == 4
\* The longest sequence handed to insert_all / from_iter.
MaxBatch == 2
\* The largest max_dist handed to find.
MaxDist == 2

\* ------------------------------------------------------------------ inputs
\* Words are sequences of characters.
Words ==
    { <<>>, <<"a">>, <<"b">>, <<"a", "b">>, <<"a", "a", "b">> }

RECURSIVE SeqsUpTo(_, _)
SeqsUpTo(S, n) ==
    IF n = 0 THEN { <<>> }
    ELSE LET shorter == SeqsUpTo(S, n - 1)
         IN  shorter \cup { Append(s, x) : s \in shorter, x \in S }

Batches == SeqsUpTo(Words, MaxBatch)

\* The words of the test at the end of lib.rs.
book  == <<"b", "o", "o", "k">>
books == <<"b", "o", "o", "k", "s">>
boo   == <<"b", "o", "o">>
boon  == <<"b", "o", "o", "n">>
cook  == <<"c", "o", "o", "k">>
cake  == <<"c", "a", "k", "e">>
cape  == <<"c", "a", "p", "e">>
cart  == <<"c", "a", "r", "t">>
bo    == <<"b", "o">>

TestWords == << book, books, boo, boon, cook, cake, cape, cart >>

TestQueries == { bo, book, boo, cake, cart, <<"c", "a">>, <<>> }

\* ------------------------------------------------------------------ metric
Min2(x, y) == IF x < y THEN x ELSE y

\* distance::levenshtein_distance: the unit-cost edit distance (insert, delete,
\* substitute) between two strings.
RECURSIVE levenshtein_distance(_, _)
levenshtein_distance(a, b) ==
    IF a = <<>> THEN Len(b)
    ELSE IF b = <<>> THEN Len(a)
    ELSE Min2(Min2(levenshtein_distance(Tail(a), b) + 1,
                   levenshtein_distance(a, Tail(b)) + 1),
              levenshtein_distance(Tail(a), Tail(b))
                  + (IF Head(a) = Head(b) THEN 0 ELSE 1))

\* ------------------------------------------------------------------- state
VARIABLES
    nodes,       \* the tree: root (node 1, when present) and every Node<T>
    pc,          \* "idle" | "insert_all" | "find" | "iter" | "into_iter" | "consumed"
    pending,     \* insert_all: the rest of the iterator being drained
    query,       \* find: val
    max_dist,    \* find: max_dist
    candidates,  \* find: the VecDeque<&Node<T>>
    found,       \* find: the Vec<(&T, usize)>
    visited,     \* find: the nodes popped from candidates so far, in order
    queue,       \* Iter / IntoIter: the Vec of nodes still to yield
    yielded,     \* the items next() has returned so far, in order
    calls,       \* the number of insert calls made so far
    dups,        \* how many of them passed a value at distance 0 from a stored one
    passed,      \* the set of values passed to insert so far
    op,          \* the operation started last
    argWord,     \* insert: its val
    argSeq,      \* insert_all / from_iter: its sequence
    pre          \* the tree when the operation started last began

vars == << nodes, pc, pending, query, max_dist, candidates, found, visited,
           queue, yielded, calls, dups, passed, op, argWord, argSeq, pre >>

\* ------------------------------------------------------------------- Node
Node(val) == [word |-> val, children |-> <<>>]

\* self.root.is_none()
RootIsNone(ns) == ns = <<>>

StoredWords(ns) == { ns[i].word : i \in 1..Len(ns) }

\* A value at distance 0 from an element stored in the tree.
IsDuplicate(ns, val) ==
    \E i \in 1..Len(ns) : levenshtein_distance(ns[i].word, val) = 0

\* ----------------------------------------------------------------- insert
\* Faulty variants of Position: one takes the first child whatever its edge,
\* one never finds a child.
PositionAny(children, k) == IF children = <<>> THEN 0 ELSE 1

PositionNever(children, k) == 0

\* u.children.iter().position(|(dist, _)| *dist == k); 0 stands for None.
Position(children, k) ==
    LET hits == { i \in 1..Len(children) : children[i][1] = k }
    IN  IF hits = {} THEN 0
        ELSE CHOOSE i \in hits : \A j \in hits : i <= j

\* A faulty variant of Push: the new entry goes to the front of the list.
PushFront(ns, u, k, val) ==
    Append([ns EXCEPT ![u].children = << << k, Len(ns) + 1 >> >> \o @],
           Node(val))

\* u.children.push((k, Node { word: val, children: Vec::new() }))
Push(ns, u, k, val) ==
    Append([ns EXCEPT ![u].children = Append(@, << k, Len(ns) + 1 >>)],
           Node(val))

\* A faulty variant of Walk: without the return at k == 0.
RECURSIVE WalkNoDupCheck(_, _, _)
WalkNoDupCheck(ns, u, val) ==
    LET k == levenshtein_distance(ns[u].word, val)
        v == Position(ns[u].children, k)
    IN  IF v = 0 THEN Push(ns, u, k, val)
        ELSE WalkNoDupCheck(ns, ns[u].children[v][2], val)

\* The loop of insert, from node u.
RECURSIVE Walk(_, _, _)
Walk(ns, u, val) ==
    LET k == levenshtein_distance(ns[u].word, val)
        v == Position(ns[u].children, k)
    IN  IF k = 0 THEN ns
        ELSE IF v = 0 THEN Push(ns, u, k, val)
        ELSE Walk(ns, ns[u].children[v][2], val)

\* BkTree::insert
InsertOp(ns, val) ==
    IF RootIsNone(ns) THEN << Node(val) >> ELSE Walk(ns, 1, val)

\* No find is running: its locals do not exist.
FindIdle ==
    /\ query' = <<>>
    /\ max_dist' = 0
    /\ candidates' = <<>>
    /\ found' = <<>>
    /\ visited' = <<>>

\* No iterator exists.
IterIdle ==
    /\ queue' = <<>>
    /\ yielded' = <<>>

\* A call of insert.
Insert(val) ==
    /\ pc = "idle"
    /\ nodes' = InsertOp(nodes, val)
    /\ calls' = calls + 1
    /\ dups' = dups + (IF IsDuplicate(nodes, val) THEN 1 ELSE 0)
    /\ passed' = passed \cup { val }
    /\ op' = "insert"
    /\ argWord' = val
    /\ argSeq' = <<>>
    /\ pre' = nodes
    /\ FindIdle
    /\ IterIdle
    /\ UNCHANGED << pc, pending >>

\* ------------------------------------------------------------- insert_all
\* A call of insert_all with the sequence s.
InsertAllStart(s) ==
    /\ pc = "idle"
    /\ pc' = "insert_all"
    /\ pending' = s
    /\ op' = "insert_all"
    /\ argWord' = <<>>
    /\ argSeq' = s
    /\ pre' = nodes
    /\ FindIdle
    /\ IterIdle
    /\ UNCHANGED << nodes, calls, dups, passed >>

\* A faulty variant of InsertAllStep: the sequence is drained from its end.
InsertAllStepRev ==
    /\ pc = "insert_all"
    /\ pending # <<>>
    /\ nodes' = InsertOp(nodes, pending[Len(pending)])
    /\ calls' = calls + 1
    /\ dups' = dups + (IF IsDuplicate(nodes, pending[Len(pending)]) THEN 1 ELSE 0)
    /\ passed' = passed \cup { pending[Len(pending)] }
    /\ pending' = SubSeq(pending, 1, Len(pending) - 1)
    /\ UNCHANGED << pc, query, max_dist, candidates, found, visited, queue,
                    yielded, op, argWord, argSeq, pre >>

\* for i in iter { self.insert(i); }: one turn of the loop.
InsertAllStep ==
    /\ pc = "insert_all"
    /\ pending # <<>>
    /\ nodes' = InsertOp(nodes, Head(pending))
    /\ calls' = calls + 1
    /\ dups' = dups + (IF IsDuplicate(nodes, Head(pending)) THEN 1 ELSE 0)
    /\ passed' = passed \cup { Head(pending) }
    /\ pending' = Tail(pending)
    /\ UNCHANGED << pc, query, max_dist, candidates, found, visited, queue,
                    yielded, op, argWord, argSeq, pre >>

\* The iterator is drained: insert_all returns.
InsertAllReturn ==
    /\ pc = "insert_all"
    /\ pending = <<>>
    /\ pc' = "idle"
    /\ UNCHANGED << nodes, pending, query, max_dist, candidates, found, visited,
                    queue, yielded, calls, dups, passed, op, argWord, argSeq, pre >>

\* ------------------------------------------------------------------- find
\* A faulty variant of abs_difference: a saturating x - y.
abs_difference_saturating(x, y) == IF x < y THEN 0 ELSE x - y

\* abs_difference
abs_difference(x, y) == IF x < y THEN y - x ELSE x - y

\* A faulty variant of Keep: < for <=.
KeepStrict(arc, distance, md) == abs_difference(arc, distance) < md

\* The filter of find: abs_difference(*arc, distance) <= max_dist.
Keep(arc, distance, md) == abs_difference(arc, distance) <= md

\* n.children.iter().filter_map(|(arc, node)| (...).then(|| node))
RECURSIVE FilterChildren(_, _, _)
FilterChildren(children, distance, md) ==
    IF children = <<>> THEN <<>>
    ELSE (IF Keep(Head(children)[1], distance, md)
          THEN << Head(children)[2] >> ELSE <<>>)
         \o FilterChildren(Tail(children), distance, md)

\* A call of find, up to its loop; on an empty tree it returns vec![] at once.
FindStart(val, md) ==
    /\ pc = "idle"
    /\ query' = val
    /\ max_dist' = md
    /\ found' = <<>>
    /\ visited' = <<>>
    /\ IF RootIsNone(nodes)
       THEN /\ candidates' = <<>>
            /\ pc' = "idle"
       ELSE /\ candidates' = << 1 >>
            /\ pc' = "find"
    /\ op' = "find"
    /\ argWord' = <<>>
    /\ argSeq' = <<>>
    /\ pre' = nodes
    /\ IterIdle
    /\ UNCHANGED << nodes, pending, calls, dups, passed >>

\* A faulty variant of FindStep: pop_back for pop_front.
FindStepLifo ==
    /\ pc = "find"
    /\ candidates # <<>>
    /\ LET n == candidates[Len(candidates)]
           distance == levenshtein_distance(nodes[n].word, query)
       IN  /\ found' = IF distance <= max_dist
                       THEN Append(found, << nodes[n].word, distance >>)
                       ELSE found
           /\ candidates' = SubSeq(candidates, 1, Len(candidates) - 1)
                  \o FilterChildren(nodes[n].children, distance, max_dist)
           /\ visited' = Append(visited, n)
    /\ UNCHANGED << nodes, pc, pending, query, max_dist, queue, yielded,
                    calls, dups, passed, op, argWord, argSeq, pre >>

\* One turn of the while loop: candidates.pop_front() gave Some(n).
FindStep ==
    /\ pc = "find"
    /\ candidates # <<>>
    /\ LET n == Head(candidates)
           distance == levenshtein_distance(nodes[n].word, query)
       IN  /\ found' = IF distance <= max_dist
                       THEN Append(found, << nodes[n].word, distance >>)
                       ELSE found
           /\ candidates' = Tail(candidates)
                  \o FilterChildren(nodes[n].children, distance, max_dist)
           /\ visited' = Append(visited, n)
    /\ UNCHANGED << nodes, pc, pending, query, max_dist, queue, yielded,
                    calls, dups, passed, op, argWord, argSeq, pre >>

\* candidates.pop_front() gave None: find returns found.
FindReturn ==
    /\ pc = "find"
    /\ candidates = <<>>
    /\ pc' = "idle"
    /\ UNCHANGED << nodes, pending, query, max_dist, candidates, found,
                    visited, queue, yielded, calls, dups, passed, op, argWord,
                    argSeq, pre >>

\* -------------------------------------------------------------- iterators
\* node.children.iter().map(|(_, n)| n)
ChildNodes(children) == [i \in 1..Len(children) |-> children[i][2]]

\* BkTree::iter
IterStart ==
    /\ pc = "idle"
    /\ queue' = IF RootIsNone(nodes) THEN <<>> ELSE << 1 >>
    /\ yielded' = <<>>
    /\ pc' = "iter"
    /\ op' = "iter"
    /\ argWord' = <<>>
    /\ argSeq' = <<>>
    /\ pre' = nodes
    /\ FindIdle
    /\ UNCHANGED << nodes, pending, calls, dups, passed >>

\* A faulty variant of IterNext: the children are not pushed.
IterNextNoExtend ==
    /\ pc = "iter"
    /\ IF queue = <<>>
       THEN /\ pc' = "idle"
            /\ UNCHANGED << queue, yielded >>
       ELSE LET node == queue[Len(queue)]
            IN  /\ queue' = SubSeq(queue, 1, Len(queue) - 1)
                /\ yielded' = Append(yielded, nodes[node].word)
                /\ pc' = pc
    /\ UNCHANGED << nodes, pending, query, max_dist, candidates, found,
                    visited, calls, dups, passed, op, argWord, argSeq, pre >>

\* Iter::next; when it returns None the borrow of the tree ends.
IterNext ==
    /\ pc = "iter"
    /\ IF queue = <<>>
       THEN /\ pc' = "idle"
            /\ UNCHANGED << queue, yielded >>
       ELSE LET node == queue[Len(queue)]
            IN  /\ queue' = SubSeq(queue, 1, Len(queue) - 1)
                       \o ChildNodes(nodes[node].children)
                /\ yielded' = Append(yielded, nodes[node].word)
                /\ pc' = pc
    /\ UNCHANGED << nodes, pending, query, max_dist, candidates, found,
                    visited, calls, dups, passed, op, argWord, argSeq, pre >>

\* BkTree::into_iter (and IntoIterator::into_iter): the tree is moved into
\* the iterator, whose nodes stay in the arena until they are yielded.
IntoIterStart ==
    /\ pc = "idle"
    /\ queue' = IF RootIsNone(nodes) THEN <<>> ELSE << 1 >>
    /\ yielded' = <<>>
    /\ pc' = "into_iter"
    /\ op' = "into_iter"
    /\ argWord' = <<>>
    /\ argSeq' = <<>>
    /\ pre' = nodes
    /\ FindIdle
    /\ UNCHANGED << nodes, pending, calls, dups, passed >>

\* IntoIter::next; when it returns None the tree has been consumed.
IntoIterNext ==
    /\ pc = "into_iter"
    /\ IF queue = <<>>
       THEN /\ pc' = "consumed"
            /\ UNCHANGED << queue, yielded >>
       ELSE LET node == queue[Len(queue)]
            IN  /\ queue' = SubSeq(queue, 1, Len(queue) - 1)
                       \o ChildNodes(nodes[node].children)
                /\ yielded' = Append(yielded, nodes[node].word)
                /\ pc' = pc
    /\ UNCHANGED << nodes, pending, query, max_dist, candidates, found,
                    visited, calls, dups, passed, op, argWord, argSeq, pre >>

\* ------------------------------------------------------------ construction
Fresh ==
    /\ nodes = <<>>
    /\ query = <<>>
    /\ max_dist = 0
    /\ candidates = <<>>
    /\ found = <<>>
    /\ visited = <<>>
    /\ queue = <<>>
    /\ yielded = <<>>
    /\ calls = 0
    /\ dups = 0
    /\ passed = {}
    /\ argWord = <<>>
    /\ pre = <<>>

\* BkTree::new
New ==
    /\ Fresh
    /\ pc = "idle"
    /\ pending = <<>>
    /\ op = "new"
    /\ argSeq = <<>>

\* FromIterator::from_iter: BkTree::new() and then insert_all(iter) on it.
FromIter(s) ==
    /\ Fresh
    /\ pc = "insert_all"
    /\ pending = s
    /\ op = "from_iter"
    /\ argSeq = s

Init == New \/ \E s \in Batches : FromIter(s)

\* The test of lib.rs: insert_all of the eight words into a new tree, then find.
TestInsertAll ==
    /\ op = "new"
    /\ calls = 0
    /\ InsertAllStart(TestWords)

TestFind ==
    /\ calls = Len(TestWords)
    /\ \E val \in TestQueries, md \in 0..MaxDist : FindStart(val, md)

Next ==
    \/ \E val \in Words : calls < MaxInserts /\ Insert(val)
    \/ \E s \in Batches : calls + Len(s) <= MaxInserts /\ InsertAllStart(s)
    \/ InsertAllStep
    \/ InsertAllReturn
    \/ \E val \in Words, md \in 0..MaxDist : FindStart(val, md)
    \/ FindStep
    \/ FindReturn
    \/ IterStart
    \/ IterNext
    \/ IntoIterStart
    \/ IntoIterNext

Spec == Init /\ [][Next]_vars

\* Every call runs on the caller's thread to its end: a started find is not
\* abandoned between two turns of its loop.
FairSpec == Spec /\ WF_vars(FindStep) /\ WF_vars(FindReturn)

\* The behaviours of Spec together with the test's.
TestSpec == Init /\ [][Next \/ TestInsertAll \/ TestFind]_vars

\* ------------------------------------------------------------- properties
Range(s) == { s[i] : i \in 1..Len(s) }

NoRepeat(s) == \A i, j \in 1..Len(s) : i # j => s[i] # s[j]

\* find has returned, and found is its result.
FindReturned == op = "find" /\ pc = "idle"

\* An iterator has been run until next() returned None.
Exhausted == (op = "iter" /\ pc = "idle") \/ pc = "consumed"

\* The nodes of the subtree rooted at node c.
RECURSIVE Subtree(_, _)
Subtree(ns, c) ==
    { c } \cup UNION { Subtree(ns, ns[c].children[i][2]) :
                         i \in 1..Len(ns[c].children) }

\* The nodes in breadth-first order: level after level, each level's nodes in
\* the order of their parents and, under one parent, of its children list.
RECURSIVE ChildrenOfAll(_, _)
ChildrenOfAll(ns, level) ==
    IF level = <<>> THEN <<>>
    ELSE ChildNodes(ns[Head(level)].children) \o ChildrenOfAll(ns, Tail(level))

RECURSIVE LevelsFrom(_, _)
LevelsFrom(ns, level) ==
    IF level = <<>> THEN <<>>
    ELSE level \o LevelsFrom(ns, ChildrenOfAll(ns, level))

BreadthFirst(ns) == IF ns = <<>> THEN <<>> ELSE LevelsFrom(ns, << 1 >>)

\* The in-range elements of a sequence of nodes, each with its distance to q.
RECURSIVE InRange(_, _, _, _)
InRange(ns, ids, q, md) ==
    IF ids = <<>> THEN <<>>
    ELSE LET d == levenshtein_distance(ns[Head(ids)].word, q)
         IN  (IF d <= md THEN << << ns[Head(ids)].word, d >> >> ELSE <<>>)
             \o InRange(ns, Tail(ids), q, md)

\* The nodes the pruning rule lets through below node u: u, and every child
\* whose edge is within md of distance(u.word, q), with what it lets through.
RECURSIVE PrunedFrom(_, _, _, _)
PrunedFrom(ns, u, q, md) ==
    LET d == levenshtein_distance(ns[u].word, q)
        near == { i \in 1..Len(ns[u].children) :
                    /\ ns[u].children[i][1] <= d + md
                    /\ d <= ns[u].children[i][1] + md }
    IN  { u } \cup UNION { PrunedFrom(ns, ns[u].children[i][2], q, md) : i \in near }

Pruned(ns, q, md) == IF ns = <<>> THEN {} ELSE PrunedFrom(ns, 1, q, md)

\* insert called once per element of s, in the order of s.
RECURSIVE InsertEach(_, _)
InsertEach(ns, s) ==
    IF s = <<>> THEN ns
    ELSE InsertOp(InsertEach(ns, SubSeq(s, 1, Len(s) - 1)), s[Len(s)])

\* C1: when find returns, every stored element within max_dist of the query is
\* in the result exactly once, every entry of the result is a stored element
\* paired with its distance to the query, which is at most max_dist, and with
\* max_dist = 0 every entry equals the query.
C1_FindIsLinearScan ==
    FindReturned =>
        /\ \A i \in 1..Len(nodes) :
               levenshtein_distance(nodes[i].word, query) <= max_dist
                   => Cardinality({ j \in 1..Len(found) :
                                      found[j][1] = nodes[i].word }) = 1
        /\ \A j \in 1..Len(found) :
               /\ found[j][1] \in StoredWords(nodes)
               /\ found[j][2] = levenshtein_distance(found[j][1], query)
               /\ found[j][2] <= max_dist
        /\ max_dist = 0 => \A j \in 1..Len(found) : found[j][1] = query

\* A find that returned some but not all elements of a tree of at least three
\* nodes, and pruned part of the tree.
C1_Witness ==
    /\ FindReturned
    /\ Len(nodes) >= 3
    /\ Len(found) >= 1
    /\ Len(found) < Len(nodes)
    /\ Len(visited) < Len(nodes)

\* C2: no two entries of a node's children list carry the same edge distance.
C2_UniqueEdges ==
    \A u \in 1..Len(nodes) :
        \A i, j \in 1..Len(nodes[u].children) :
            i # j => nodes[u].children[i][1] # nodes[u].children[j][1]

\* A node with two children, after an insert that went down below a child.
C2_Witness ==
    /\ \E u \in 1..Len(nodes) : Len(nodes[u].children) >= 2
    /\ \E u \in 2..Len(nodes) : Len(nodes[u].children) >= 1

\* C3: an insert of a value at distance 0 from a stored element leaves the tree
\* as it was, and inserting the value just inserted once more changes nothing.
C3_DuplicateInsertNoOp ==
    op = "insert" =>
        /\ IsDuplicate(pre, argWord) => nodes = pre
        /\ InsertOp(nodes, argWord) = nodes

\* A duplicate of an element below the root was inserted.
C3_Witness ==
    /\ op = "insert"
    /\ Len(pre) >= 3
    /\ IsDuplicate(pre, argWord)
    /\ argWord # pre[1].word

\* C4: an iterator yields at most as many items as there are nodes, and run to
\* exhaustion it has yielded every node's value exactly once and nothing else:
\* the values ever passed to insert.
C4_TraversalComplete ==
    /\ pc \in { "iter", "into_iter" } => Len(yielded) + Len(queue) <= Len(nodes)
    /\ Exhausted =>
           /\ Len(yielded) = Len(nodes)
           /\ NoRepeat(yielded)
           /\ Range(yielded) = StoredWords(nodes)
           /\ Range(yielded) = passed

\* The borrowed iterator was exhausted over a tree of four nodes that has a
\* node with two children.
C4_Witness ==
    /\ op = "iter"
    /\ pc = "idle"
    /\ Len(yielded) >= 4
    /\ \E u \in 1..Len(nodes) : Len(nodes[u].children) >= 2

\* C5: a full traversal yields at most as many items as insert was called, and
\* as many exactly when no call passed a value at distance 0 from an element
\* stored at the time.
C5_CountLaw ==
    Exhausted =>
        /\ Len(yielded) <= calls
        /\ Len(yielded) = calls <=> dups = 0

\* A full traversal after a duplicate insert.
C5_Witness ==
    /\ Exhausted
    /\ dups >= 1
    /\ Len(yielded) >= 2
    /\ Len(yielded) < calls

\* C6: when insert_all returns, the tree is the one that one insert per element,
\* in order, makes of the tree it started on; from_iter gives the tree these
\* inserts make of the empty tree.
C6_BulkIsIteratedInsert ==
    /\ (op = "insert_all" /\ pc = "idle") => nodes = InsertEach(pre, argSeq)
    /\ (op = "from_iter" /\ pc = "idle") => nodes = InsertEach(<<>>, argSeq)

\* insert_all of two new elements into a tree that is not empty.
C6_Witness ==
    /\ op = "insert_all"
    /\ pc = "idle"
    /\ Len(pre) >= 1
    /\ Len(argSeq) >= 2
    /\ Len(nodes) = Len(pre) + 2

\* C7: the result of find is the breadth-first sequence of the nodes, cut down
\* to the elements in range; for the tree of the test, find("bo", 2) returns
\* ("book", 2), ("boo", 1), ("boon", 2) in this order.
C7_FindOrder ==
    FindReturned =>
        /\ found = InRange(nodes, BreadthFirst(nodes), query, max_dist)
        /\ (StoredWords(nodes) = Range(TestWords) /\ query = bo /\ max_dist = 2)
               => found = << << book, 2 >>, << boo, 1 >>, << boon, 2 >> >>

\* The find of the test has returned.
C7_Witness ==
    /\ FindReturned
    /\ query = bo
    /\ max_dist = 2
    /\ Len(found) = 3
    /\ Len(nodes) = Len(TestWords)
    /\ nodes = InsertEach(<<>>, TestWords)

C8_Visits ==
    /\ pc = "find" \/ FindReturned =>
           /\ NoRepeat(visited \o candidates)
           /\ Range(visited \o candidates) \subseteq Pruned(nodes, query, max_dist)
    /\ FindReturned =>
           /\ Range(visited) = Pruned(nodes, query, max_dist)
           /\ candidates = <<>>

\* C8: a find that was started returns; it takes from the queue, once each, the
\* nodes the pruning rule lets through and no others, and the queue is empty
\* when it returns.
C8_FindVisitsPrunedSet == []C8_Visits /\ (pc = "find" ~> FindReturned)

\* A find that visited more than the root and less than the whole tree.
C8_Witness ==
    /\ FindReturned
    /\ Len(visited) >= 2
    /\ Len(visited) < Len(nodes)

\* C9: insert makes its value the root of an empty tree; of another tree it
\* changes nothing, or gives one node one more entry at the end of its children
\* list, labelled with the distance from that node's value to the new value and
\* leading to a new node without children. No operation takes a node, a value,
\* an edge or a child away, or reorders children.
C9_InsertFrame ==
    /\ op = "insert" =>
           IF pre = <<>> THEN nodes = << Node(argWord) >>
           ELSE \/ nodes = pre
                \/ \E u \in 1..Len(pre) :
                       nodes = Append(
                           [pre EXCEPT ![u].children = Append(@,
                               << levenshtein_distance(pre[u].word, argWord),
                                  Len(pre) + 1 >>)],
                           Node(argWord))
    /\ Len(pre) <= Len(nodes)
    /\ \A i \in 1..Len(pre) :
           /\ nodes[i].word = pre[i].word
           /\ Len(pre[i].children) <= Len(nodes[i].children)
           /\ pre[i].children = SubSeq(nodes[i].children, 1, Len(pre[i].children))
    /\ op \in { "find", "iter", "into_iter" } => nodes = pre

\* An insert gave a node that had a child one more child.
C9_Witness ==
    /\ op = "insert"
    /\ Len(nodes) = Len(pre) + 1
    /\ \E u \in 2..Len(pre) :
           /\ Len(pre[u].children) >= 1
           /\ Len(nodes[u].children) = Len(pre[u].children) + 1

\* C10: every edge distance is at least 1, and every value in the subtree below
\* an edge is at that distance from the value of the node the edge leaves.
C10_SubtreeDistance ==
    \A u \in 1..Len(nodes) :
        \A i \in 1..Len(nodes[u].children) :
            LET k == nodes[u].children[i][1]
                c == nodes[u].children[i][2]
            IN  /\ k >= 1
                /\ \A x \in Subtree(nodes, c) :
                       levenshtein_distance(nodes[u].word, nodes[x].word) = k

\* A child of the root with a grandchild below it.
C10_Witness ==
    \E i \in 1..(IF nodes = <<>> THEN 0 ELSE Len(nodes[1].children)) :
        Cardinality(Subtree(nodes, nodes[1].children[i][2])) >= 3


=============================================================================
